---- MODULE Spec2Model ----
(***************************************************************************)
(* A model of tools/gensys.py, the MP/M II system generator: it loads      *)
(* relocatable SPR modules, plans a downward-growing memory layout,        *)
(* relocates every module with its bitmap, patches the fixed               *)
(* cross-references and fills the 256-byte SYSTEM.DAT control block.       *)
(*                                                                         *)
(* Byte buffers (bytes, bytearray) are sequences of 0..255.  The source    *)
(* indexes them from 0; the operators below take the source's 0-based      *)
(* offsets and translate to the 1-based sequences of TLA+.                 *)
(***************************************************************************)
EXTENDS Integers, Sequences, FiniteSets, TLC

(***************************************************************************)
(* Python built-ins used by the generator.                                 *)
(***************************************************************************)
Min(a, b) == IF a < b THEN a ELSE b

Max(a, b) == IF a > b THEN a ELSE b

\* A slice bound as Python normalises it against a buffer of length n.
PyIndex(i, n) == IF i < 0 THEN Max(i + n, 0) ELSE Min(i, n)

\* s[a:b]
PySlice(s, a, b) ==
    LET lo == PyIndex(a, Len(s))
        hi == PyIndex(b, Len(s))
    IN  IF lo < hi THEN SubSeq(s, lo + 1, hi) ELSE <<>>

\* s[a:b] = v on a bytearray: the slice is replaced by v whatever its length.
PySliceAssign(s, a, b, v) ==
    LET lo == PyIndex(a, Len(s))
        hi == Max(PyIndex(b, Len(s)), lo)
    IN  SubSeq(s, 1, lo) \o v \o SubSeq(s, hi + 1, Len(s))

\* s[i] = v on a bytearray raises unless 0 <= i < len(s) and 0 <= v < 256.
CanSetByte(s, i, v) == i >= 0 /\ i < Len(s) /\ v >= 0 /\ v <= 255

\* The item assignment landing one byte lower.
SetByteBelow(s, i, v) == [s EXCEPT ![IF i = 0 THEN 1 ELSE i] = v]

SetByte(s, i, v) == [s EXCEPT ![i + 1] = v]

\* The same write with the two bytes in big-endian order ('>H').
PackHBE(buf, off, v) ==
    [buf EXCEPT ![off + 1] = v \div 256, ![off + 2] = v % 256]

\* struct.pack_into('<H', buf, off, v) raises struct.error unless the two
\* bytes lie inside buf and v is an unsigned 16-bit number.
CanPackH(buf, off, v) == off + 2 <= Len(buf) /\ v >= 0 /\ v <= 65535

PackH(buf, off, v) ==
    [buf EXCEPT ![off + 1] = v % 256, ![off + 2] = v \div 256]

\* What a pack_into that raises leaves behind: struct clears the two bytes
\* before it converts the value, so a value out of range leaves them zero.
PackHFailed(buf, off) ==
    IF off + 2 <= Len(buf) THEN [buf EXCEPT ![off + 1] = 0, ![off + 2] = 0] ELSE buf

\* struct.unpack('<H', b) raises struct.error unless len(b) = 2.
CanUnpackH(b) == Len(b) = 2

UnpackH(b) == b[1] + 256 * b[2]

\* a & b on non-negative integers.
RECURSIVE BitAnd(_, _)
BitAnd(a, b) ==
    IF a = 0 \/ b = 0 THEN 0
    ELSE (a % 2) * (b % 2) + 2 * BitAnd(a \div 2, b \div 2)

\* bytearray(n)
Zeros(n) == [i \in 1..n |-> 0]

(***************************************************************************)
(* SPR files.  A file is its byte sequence; Absent is a path that does not *)
(* exist.                                                                  *)
(***************************************************************************)
\* (no byte sequence: a byte is never negative)
Absent == <<-1>>

\* None where a module is expected.
NoModule == [none |-> TRUE]

LE16(v) == <<v % 256, v \div 256>>

\* The 256-byte header: psize at bytes 1-2, dsize at bytes 4-5, the rest fill.
SprHeader(psize, dsize) ==
    <<0>> \o LE16(psize) \o <<0>> \o LE16(dsize) \o Zeros(250)

\* The relocation bitmap marking the code indices in R, MSB first.
RECURSIVE BitmapByte(_, _, _)
BitmapByte(R, k, j) ==
    IF j > 7 THEN 0
    ELSE (IF (8 * k + j) \in R THEN 2 ^ (7 - j) ELSE 0) + BitmapByte(R, k, j + 1)

SprBitmap(R, psize) == [k \in 1..((psize + 7) \div 8) |-> BitmapByte(R, k - 1, 0)]

\* Code bytes of a test module: a seeded ramp.
Ramp(seed, n) == [i \in 1..n |-> (seed + 7 * (i - 1)) % 256]

\* A well-formed SPR file with the given code and relocated indices.
SprFile(code, dsize, R) ==
    SprHeader(Len(code), dsize) \o code \o SprBitmap(R, Len(code))

(***************************************************************************)
(* SPRModule                                                               *)
(***************************************************************************)
\* SPRModule.load: the module read from the bytes of a file, or the error.
SPRLoad(path, data) ==
    IF data = Absent THEN [ok |-> FALSE, err |-> "FileNotFoundError"]
    ELSE IF Len(data) < 256 THEN [ok |-> FALSE, err |-> "ValueError"]
    ELSE LET psize == UnpackH(PySlice(data, 1, 3))
             dsize == UnpackH(PySlice(data, 4, 6))
             code_start == 256
             code_end == code_start + psize
         IN  IF Len(data) < code_end THEN [ok |-> FALSE, err |-> "ValueError"]
             ELSE [ok |-> TRUE,
                   mod |-> [path |-> path,
                            code |-> PySlice(data, code_start, code_end),
                            psize |-> psize,
                            dsize |-> dsize,
                            base |-> 0,
                            relocs |-> 0]]

\* SPRModule.get_bitmap: the bitmap bytes the file holds after the code.
GetBitmap(data, psize) ==
    LET bitmap_bytes_needed == (psize + 7) \div 8
        bitmap_start == 256 + psize
    IN  PySlice(data, bitmap_start, bitmap_start + bitmap_bytes_needed)

\* The test with the bits of a bitmap byte counted from the low end.
RelocBitSetLSB(bitmap, byte_idx) ==
    LET bitmap_byte == byte_idx \div 8
        bitmap_bit == byte_idx % 8
    IN  /\ bitmap_byte < Len(bitmap)
        /\ BitAnd(bitmap[bitmap_byte + 1], 2 ^ bitmap_bit) # 0

\* The test the relocation loop makes for one code byte.
RelocBitSet(bitmap, byte_idx) ==
    LET bitmap_byte == byte_idx \div 8
        bitmap_bit == 7 - (byte_idx % 8)
    IN  /\ bitmap_byte < Len(bitmap)
        /\ BitAnd(bitmap[bitmap_byte + 1], 2 ^ bitmap_bit) # 0

\* The test read_spr of mkmpm.py makes for one code byte: the mask 0x80
\* shifted right by the bit's position.
ReadSprBitSet(reloc_bitmap, byte_idx) ==
    LET bitmap_byte == byte_idx \div 8
        bitmap_bit == byte_idx % 8
    IN  /\ bitmap_byte < Len(reloc_bitmap)
        /\ BitAnd(reloc_bitmap[bitmap_byte + 1], 128 \div (2 ^ bitmap_bit)) # 0

\* The loop of SPRModule.relocate: every code byte below psize whose bit is
\* set gets base_page added, modulo 256; an iteration touches its own byte only.
RelocateCode(code, bitmap, base_page, psize) ==
    [i \in 1..Len(code) |->
        IF i - 1 < psize /\ RelocBitSet(bitmap, i - 1)
        THEN (code[i] + base_page) % 256
        ELSE code[i]]

\* The relocation that moves the code bytes and leaves module.base as it was.
RelocateKeepBase(m, data, base_page) ==
    [m EXCEPT !.relocs = m.relocs + 1,
              !.code = RelocateCode(m.code, GetBitmap(data, m.psize), base_page, m.psize)]

\* SPRModule.relocate
Relocate(m, data, base_page) ==
    [m EXCEPT !.base = base_page * 256,
              !.relocs = m.relocs + 1,
              !.code = RelocateCode(m.code, GetBitmap(data, m.psize), base_page, m.psize)]

(***************************************************************************)
(* Configurations and input files of a run.                                *)
(***************************************************************************)
\* The largest number of extension descriptors a configuration lists.
MaxExt == 2

\* SystemConfig with its default values.
DefaultConfig ==
    [mem_top |-> 255, common_base |-> 192,
     num_consoles |-> 4, num_printers |-> 1,
     bank_switched |-> TRUE, z80_cpu |-> TRUE, sys_call_stks |-> TRUE,
     banked_bdos |-> TRUE, day_file |-> TRUE,
     ticks_per_second |-> 60, system_drive |-> 1, temp_file_drive |-> 1,
     max_locked_records |-> 16, total_locked_records |-> 32,
     max_open_files |-> 16, total_open_files |-> 32,
     num_mem_segments |-> 7, breakpoint_rst |-> 6,
     rsps |-> <<>>]

\* The six core modules, in the order load_modules reads them.
CoreSlots == <<"resbdos", "xdos", "bnkxios", "bnkbdos", "bnkxdos", "tmp">>

CoreNames == {CoreSlots[k] : k \in 1..Len(CoreSlots)}

\* The file a core module is read from (spr_dir / config.<slot>_spr).
CorePath(slot) == <<slot, 0>>

\* Descriptor k of the configured extension list: a name and two file names.
ExtDesc(k) ==
    [name |-> <<"ext", k>>, rsp |-> <<"rsp", k>>, brs |-> <<"brs", k>>]

ExtDescs(n) == [k \in 1..n |-> ExtDesc(k)]

MemTops == {5, 12, 255}

CommonBases == {0, 192}

ConsoleCounts == {0, 4, 5, 9}

SegmentCounts == {0, 1, 4, 5, 8, 9, 200}

\* Kinds of extension: with a companion file, without one, foreground file
\* missing; and extensions too short for the fields patched into them.
MainKinds == {"pair", "solo", "missing"}

ShortKinds == {"rsp1", "rsp4", "brs3"}

\* Well-formed core files.  BNKXIOS starts with JP COMMONBASE: bytes 1-2 hold
\* the target, whose high byte the bitmap marks.
XiosCode(lo, hi, n) == <<195, lo, hi>> \o Ramp(3, n - 3)

GoodFile(slot) ==
    CASE slot = "resbdos" -> SprFile(Ramp(1, 255), 0, {2, 11, 14, 17})
      [] slot = "xdos"    -> SprFile(Ramp(2, 60), 200, {5, 8, 20})
      [] slot = "bnkxios" -> SprFile(XiosCode(3, 0, 40), 0, {2, 5, 8})
      [] slot = "bnkbdos" -> SprFile(Ramp(4, 16), 0, {0, 7, 8, 15})
      [] slot = "bnkxdos" -> SprFile(Ramp(5, 50), 206, {6, 9})
      [] slot = "tmp"     -> SprFile(Ramp(6, 16), 0, {1, 5})

\* Deviating files of one core slot.
BadFiles(slot) ==
    CASE slot = "resbdos" -> {Absent,
                              SprFile(Ramp(1, 16), 0, {2, 11}),
                              SprFile(Ramp(1, 250), 0, {2, 11, 14, 17}),
                              SprFile(Ramp(1, 255), 0, {2, 11, 14, 17, 215, 250})}
      [] slot = "xdos"    -> {Absent,
                              SprFile(Ramp(2, 10), 0, {5, 8}),
                              SprFile(Ramp(2, 20), 0, {5, 8})}
      [] slot = "bnkxios" -> {Absent,
                              SprFile(XiosCode(30, 0, 40), 0, {2}),
                              SprFile(XiosCode(3, 193, 40), 0, {}),
                              SprFile(XiosCode(251, 255, 40), 0, {2}),
                              SprFile(XiosCode(3, 0, 40), 0, {}),
                              SprFile(XiosCode(251, 246, 256), 0, {}),
                              SprFile(XiosCode(3, 0, 300), 0, {2, 5, 8}),
                              SprFile(<<195, 3>>, 0, {})}
      [] slot = "bnkbdos" -> {Absent,
                              SubSeq(GoodFile(slot), 1, 100),
                              SubSeq(GoodFile(slot), 1, 256 + 10),
                              SubSeq(GoodFile(slot), 1, 256 + 16),
                              SubSeq(GoodFile(slot), 1, 256 + 17)}
      [] slot = "bnkxdos" -> {Absent,
                              SprFile(Ramp(5, 20), 0, {6, 9}),
                              SprFile(<<>>, 0, {})}
      [] slot = "tmp"     -> {Absent, SprFile(Ramp(6, 1), 0, {})}

\* The foreground and companion files of extension k of the given kind.
ExtRsp(k, kind) ==
    CASE kind = "missing" -> Absent
      [] kind = "rsp1"    -> SprFile(Ramp(16 * k, 1), 0, {})
      [] kind = "rsp4"    -> SprFile(Ramp(16 * k, 4), 0, {3})
      [] OTHER            -> SprFile(Ramp(16 * k, 16), 0, {1, 3, 7})

ExtBrs(k, kind) ==
    CASE kind \in {"solo", "rsp1"} -> Absent
      [] kind = "brs3"    -> SprFile(Ramp(16 * k + 8, 3), 0, {1})
      [] OTHER            -> SprFile(Ramp(16 * k + 8, 12), 0, {1, 3})

\* The directory of a run: core files, and the files of the listed extensions.
Directory(core, kinds) ==
    [p \in {CorePath(c) : c \in CoreNames}
              \cup {<<"rsp", k>> : k \in 1..Len(kinds)}
              \cup {<<"brs", k>> : k \in 1..Len(kinds)} |->
        IF p[1] \in CoreNames THEN core[p[1]]
        ELSE IF p[1] = "rsp" THEN ExtRsp(p[2], kinds[p[2]])
        ELSE ExtBrs(p[2], kinds[p[2]])]

GoodCore == [s \in CoreNames |-> GoodFile(s)]

KindLists(K, n) == UNION {[1..m -> K] : m \in 0..n}

(***************************************************************************)
(* The generator's state: SystemGenerator's fields, the local variables of *)
(* generate(), and the position of the run.                                *)
(***************************************************************************)
VARIABLES
    cfg,                  \* SystemConfig
    files,                \* the files of spr_dir: path -> bytes or Absent
    pc,                   \* the statement of main()/generate() to run next
    err,                  \* the exception that ended the run, or "none"
    mods,                 \* self.resbdos .. self.tmp
    rsps,                 \* self.rsps
    system_data,          \* self.system_data
    cur_base,             \* self.cur_base
    tmpd_base,            \* self.tmpd_base
    xios_jmp_tbl_base,    \* self.xios_jmp_tbl_base
    console_dat_base,     \* self.console_dat_base
    lock_free_space,      \* self.lock_free_space
    resbdos009, resbdos012, xdos003, sysdatadr, bnkxios000,
    act_xios_common_base,
    modules_to_write,     \* generate()'s list of modules to copy into the image
    base,                 \* generate()'s base, as load_and_relocate_module returned it
    idx,                  \* position of the running for-loop over self.rsps
    rsp_link, prev_rsp_addr, brspl, brsp_base, nmb_brsps,
    layout_log,           \* the "Memory Layout" table printed so far
    mem_image,            \* self.mem_image
    image_base,           \* self.image_base
    output,               \* self.output
    record_count,         \* self.record_count
    written,              \* the files main() wrote: config.output, config.system_dat
    first                 \* what an earlier run of main() on these inputs left, or NoRun

\* No earlier run.
NoRun == [none |-> TRUE]

inputs == <<cfg, files, first>>

xrefs == <<resbdos009, resbdos012, xdos003, sysdatadr, bnkxios000, act_xios_common_base>>

bases == <<tmpd_base, xios_jmp_tbl_base, console_dat_base, lock_free_space>>

image == <<mem_image, image_base, output, record_count, written>>

links == <<rsp_link, prev_rsp_addr, brspl, brsp_base, nmb_brsps>>

vars == <<cfg, files, pc, err, mods, rsps, system_data, cur_base, tmpd_base,
          xios_jmp_tbl_base, console_dat_base, lock_free_space, resbdos009,
          resbdos012, xdos003, sysdatadr, bnkxios000, act_xios_common_base,
          modules_to_write, base, idx, rsp_link, prev_rsp_addr, brspl,
          brsp_base, nmb_brsps, layout_log, mem_image, image_base, output,
          record_count, written, first>>

\* A statement raised: the run ends in main()'s except clause.
Raise(e) == pc' = "failed" /\ err' = e

\* A sequence of writes into a buffer, run until one raises:
\*   <<"B", i, v>>      buf[i] = v
\*   <<"H", off, v>>    struct.pack_into('<H', buf, off, v)
\*   <<"S", a, b, v>>   buf[a:b] = v
RECURSIVE RunWrites(_, _)
RunWrites(buf, ops) ==
    IF ops = <<>> THEN [ok |-> TRUE, err |-> "none", buf |-> buf]
    ELSE LET op == Head(ops) IN
         CASE op[1] = "B" ->
                IF ~(op[2] >= 0 /\ op[2] < Len(buf))
                THEN [ok |-> FALSE, err |-> "IndexError", buf |-> buf]
                ELSE IF ~CanSetByte(buf, op[2], op[3])
                THEN [ok |-> FALSE, err |-> "ValueError", buf |-> buf]
                ELSE RunWrites(SetByte(buf, op[2], op[3]), Tail(ops))
           [] op[1] = "H" ->
                IF ~CanPackH(buf, op[2], op[3])
                THEN [ok |-> FALSE, err |-> "struct.error", buf |-> PackHFailed(buf, op[2])]
                ELSE RunWrites(PackH(buf, op[2], op[3]), Tail(ops))
           [] op[1] = "S" ->
                RunWrites(PySliceAssign(buf, op[2], op[3], op[4]), Tail(ops))

Flag(b) == IF b THEN 255 ELSE 0

(***************************************************************************)
(* Initial states: a configuration and a directory of files.               *)
(***************************************************************************)
\* Configurations crossed with extension lists, over well-formed files.
LayoutRuns ==
    {[cfg |-> [DefaultConfig EXCEPT !.mem_top = mt, !.common_base = cb,
                                    !.num_consoles = nc, !.sys_call_stks = st,
                                    !.rsps = ExtDescs(Len(kl))],
       files |-> Directory(GoodCore, kl)] :
        mt \in MemTops, cb \in CommonBases, nc \in ConsoleCounts,
        st \in BOOLEAN, kl \in KindLists(MainKinds, MaxExt)}

\* One deviating core file, or one deviating extension, under two configurations.
FileRuns ==
    {[cfg |-> [DefaultConfig EXCEPT !.common_base = cb,
                                    !.rsps = ExtDescs(Len(kl))],
       files |-> Directory(core, kl)] :
        cb \in CommonBases,
        core \in UNION {{[GoodCore EXCEPT ![s] = f] : f \in BadFiles(s)} :
                         s \in CoreNames},
        kl \in {<<>>, <<"pair">>}}
    \cup
    {[cfg |-> [DefaultConfig EXCEPT !.rsps = ExtDescs(Len(kl))],
       files |-> Directory(GoodCore, kl)] :
        kl \in {<<"pair", k>> : k \in ShortKinds} \cup {<<k>> : k \in ShortKinds}}

\* Numbers of memory segments, with and without consoles and call stacks.
SegmentRuns ==
    {[cfg |-> [DefaultConfig EXCEPT !.num_mem_segments = ns, !.num_consoles = nc,
                                    !.sys_call_stks = st,
                                    !.rsps = ExtDescs(Len(kl))],
       files |-> Directory(GoodCore, kl)] :
        ns \in SegmentCounts, nc \in {0, 4}, st \in BOOLEAN,
        kl \in {<<>>, <<"pair">>}}

Init ==
    /\ \E run \in LayoutRuns \cup FileRuns \cup SegmentRuns :
           cfg = run.cfg /\ files = run.files
    /\ pc = "load"
    /\ err = "none"
    /\ mods = [s \in CoreNames |-> NoModule]
    /\ rsps = <<>>
    /\ system_data = Zeros(256)
    /\ cur_base = cfg.mem_top
    /\ tmpd_base = 0
    /\ xios_jmp_tbl_base = 0
    /\ console_dat_base = 0
    /\ lock_free_space = 0
    /\ resbdos009 = Zeros(3)
    /\ resbdos012 = Zeros(6)
    /\ xdos003 = Zeros(6)
    /\ sysdatadr = Zeros(2)
    /\ bnkxios000 = Zeros(256)
    /\ act_xios_common_base = 0
    /\ modules_to_write = <<>>
    /\ base = 0
    /\ idx = 0
    /\ rsp_link = 0
    /\ prev_rsp_addr = 0
    /\ brspl = 0
    /\ brsp_base = 0
    /\ nmb_brsps = 0
    /\ layout_log = <<>>
    /\ mem_image = <<>>
    /\ image_base = 0
    /\ output = <<>>
    /\ record_count = 0
    /\ written = [output |-> Absent, system_dat |-> Absent]
    /\ first = NoRun

(***************************************************************************)
(* load_modules                                                            *)
(***************************************************************************)
\* The core slots load_modules reads: TMP only with consoles.
SlotsToLoad ==
    IF cfg.num_consoles > 0 THEN CoreSlots ELSE SubSeq(CoreSlots, 1, 5)

\* RSPModule.load for one descriptor whose foreground file exists.
RSPLoad(d) ==
    LET brs_path == IF files[d.brs] # Absent THEN d.brs ELSE <<"nopath", 0>>
        r == SPRLoad(d.rsp, files[d.rsp])
        b == IF brs_path = d.brs THEN SPRLoad(d.brs, files[d.brs])
             ELSE [ok |-> TRUE, mod |-> NoModule]
    IN  IF ~r.ok THEN r
        ELSE IF ~b.ok THEN b
        ELSE [ok |-> TRUE,
              rsp |-> [name |-> d.name, rsp_path |-> d.rsp, brs_path |-> brs_path,
                       rsp |-> r.mod, brs |-> b.mod, rsp_base |-> 0]]

\* The loop ending at the first descriptor whose foreground file is missing.
LoadRspsBreak(descs, acc) ==
    LET gone == {k \in 1..Len(descs) : files[descs[k].rsp] = Absent}
        n == IF gone = {} THEN Len(descs)
             ELSE (CHOOSE k \in gone : \A j \in gone : k <= j) - 1
    IN  [ok |-> TRUE, err |-> "none",
         rsps |-> acc \o [k \in 1..n |-> RSPLoad(descs[k]).rsp]]

\* The loop over config.rsps: a descriptor whose foreground file is missing is
\* skipped, the others are loaded and appended.
RECURSIVE LoadRsps(_, _)
LoadRsps(descs, acc) ==
    IF descs = <<>> THEN [ok |-> TRUE, err |-> "none", rsps |-> acc]
    ELSE LET d == Head(descs) IN
         IF files[d.rsp] = Absent THEN LoadRsps(Tail(descs), acc)
         ELSE LET l == RSPLoad(d) IN
              IF ~l.ok THEN [ok |-> FALSE, err |-> l.err, rsps |-> acc]
              ELSE LoadRsps(Tail(descs), Append(acc, l.rsp))

LoadModules ==
    /\ pc = "load"
    /\ LET slots == SlotsToLoad
           loaded == [k \in 1..Len(slots) |->
                         SPRLoad(CorePath(slots[k]), files[CorePath(slots[k])])]
           bad == {k \in 1..Len(slots) : ~loaded[k].ok}
           firstBad == IF bad = {} THEN Len(slots) + 1
                       ELSE CHOOSE k \in bad : \A j \in bad : k <= j
           ext == LoadRsps(cfg.rsps, <<>>)
       IN  /\ mods' = [s \in CoreNames |->
                         IF \E k \in 1..(firstBad - 1) : slots[k] = s
                         THEN loaded[CHOOSE k \in 1..(firstBad - 1) : slots[k] = s].mod
                         ELSE NoModule]
           /\ IF bad # {}
              THEN Raise(loaded[firstBad].err) /\ UNCHANGED rsps
              ELSE /\ rsps' = ext.rsps
                   /\ IF ext.ok THEN pc' = "setup" /\ UNCHANGED err
                      ELSE Raise(ext.err)
    /\ UNCHANGED <<inputs, image, system_data, cur_base, bases, xrefs, modules_to_write,
                   base, idx, links, layout_log>>

(***************************************************************************)
(* setup_system_data                                                       *)
(***************************************************************************)
COPYRIGHT_OFFSET == 212

COPYRIGHT_LEN == 37

SERIAL_OFFSET == 249

SERIAL_LEN == 6

SetupWrites ==
    LET code == mods["resbdos"].code IN
    << <<"B", 0, cfg.mem_top>>,
       <<"B", 1, cfg.num_consoles>>,
       <<"B", 2, cfg.breakpoint_rst>>,
       <<"B", 3, Flag(cfg.sys_call_stks)>>,
       <<"B", 4, Flag(cfg.bank_switched)>>,
       <<"B", 5, Flag(cfg.z80_cpu)>>,
       <<"B", 6, Flag(cfg.banked_bdos)>>,
       <<"B", 15, cfg.num_mem_segments>>,
       <<"B", 122, cfg.ticks_per_second>>,
       <<"B", 123, cfg.system_drive>>,
       <<"B", 124, cfg.common_base>>,
       <<"S", 144, 144 + COPYRIGHT_LEN,
              PySlice(code, COPYRIGHT_OFFSET, COPYRIGHT_OFFSET + COPYRIGHT_LEN)>>,
       <<"S", 181, 181 + SERIAL_LEN,
              PySlice(code, SERIAL_OFFSET, SERIAL_OFFSET + SERIAL_LEN)>>,
       <<"B", 187, cfg.max_locked_records>>,
       <<"B", 188, cfg.max_open_files>>,
       <<"H", 189, cfg.total_locked_records + cfg.total_open_files>>,
       <<"B", 193, cfg.total_locked_records>>,
       <<"B", 194, cfg.total_open_files>>,
       <<"B", 195, Flag(cfg.day_file)>>,
       <<"B", 196, cfg.temp_file_drive>>,
       <<"B", 197, cfg.num_printers>> >>

SetupSystemData ==
    /\ pc = "setup"
    /\ LET w == RunWrites(Zeros(256), SetupWrites) IN
       /\ system_data' = w.buf
       /\ IF w.ok THEN pc' = "layout" /\ UNCHANGED err ELSE Raise(w.err)
    /\ UNCHANGED <<inputs, image, mods, rsps, cur_base, bases, xrefs, modules_to_write,
                   base, idx, links, layout_log>>

(***************************************************************************)
(* calculate_memory_layout                                                 *)
(***************************************************************************)
\* One line of the printed layout table: a region, its base page and pages.
Region(name, b, n) == [name |-> name, base |-> b, pages |-> n]

\* Pages reserved for TMPD.DAT below the control block.
TmpdPages(n) == IF n > 0 THEN (IF n > 4 THEN 2 ELSE 1) ELSE 0

\* Pages reserved for the user system call stacks.
StkPages(flag, n) == IF flag THEN (IF n > 4 THEN 2 ELSE 1) ELSE 0

\* The user_stacks writes: one 16-bit address per memory segment, at most 8.
StackWrites(tb) ==
    IF cfg.sys_call_stks
    THEN [j \in 1..Min(cfg.num_mem_segments, 8) |->
             <<"H", 80 + (j - 1) * 2, tb * 256 - (j - 1) * 64>>]
    ELSE <<>>

CalculateMemoryLayout ==
    /\ pc = "layout"
    /\ LET top == cfg.mem_top
           c1 == top - TmpdPages(cfg.num_consoles)
           tb == IF cfg.num_consoles > 0 THEN c1 ELSE tmpd_base
           c2 == c1 - StkPages(cfg.sys_call_stks, cfg.num_mem_segments)
           c3 == c2 - 1
           w == RunWrites(system_data, <<<<"B", 7, c3>>>> \o StackWrites(tb))
       IN  /\ tmpd_base' = tb
           /\ xios_jmp_tbl_base' = c3
           /\ cur_base' = c3
           /\ layout_log' =
                <<Region(<<"SYSTEM DAT", 0>>, top, 1)>>
                \o (IF cfg.num_consoles > 0
                    THEN <<Region(<<"TMPD DAT", 0>>, c1, (cfg.num_consoles + 3) \div 4)>>
                    ELSE <<>>)
                \o (IF cfg.sys_call_stks
                    THEN <<Region(<<"USERSYS STK", 0>>, c2, (cfg.num_mem_segments + 3) \div 4)>>
                    ELSE <<>>)
                \o <<Region(<<"XIOSJMP TBL", 0>>, c3, 1)>>
           /\ system_data' = w.buf
           /\ IF w.ok THEN pc' = "resbdos" /\ UNCHANGED err ELSE Raise(w.err)
    /\ UNCHANGED <<inputs, image, mods, rsps, console_dat_base, lock_free_space, xrefs,
                   modules_to_write, base, idx, links>>

(***************************************************************************)
(* load_and_relocate_module                                                *)
(***************************************************************************)
\* The whole pages of a module's code and data, a partial page dropped.
PagesNeededTrunc(m) == (m.psize + m.dsize) \div 256

\* The pages of the code alone, the data size left out.
PagesNeededCodeOnly(m) == (m.psize + 255) \div 256

\* Pages a module needs: its code and data sizes rounded up to pages.
PagesNeeded(m) == (m.psize + m.dsize + 255) \div 256

\* The call returning prev_base, the base page before the module was placed.
LoadAndRelocatePrev(m, cur) ==
    LET pages_needed == PagesNeeded(m)
        base_page == cur - pages_needed
    IN  [mod |-> Relocate(m, files[m.path], base_page),
         base_page |-> cur,
         pages_needed |-> pages_needed]

\* The module relocated below cur, its base page and its pages.
LoadAndRelocate(m, cur) ==
    LET pages_needed == PagesNeeded(m)
        base_page == cur - pages_needed
    IN  [mod |-> Relocate(m, files[m.path], base_page),
         base_page |-> base_page,
         pages_needed |-> pages_needed]

\* The core modules generate() relocates, and where it goes after each.
RelocSlots == {"resbdos", "xdos", "bnkxios", "bnkbdos", "bnkxdos", "tmp"}

PatchPc ==
    [resbdos |-> "resbdos_patch", xdos |-> "xdos_patch", bnkxios |-> "bnkxios_patch",
     bnkbdos |-> "bnkbdos_patch", bnkxdos |-> "bnkxdos_patch", tmp |-> "tmp_patch"]

LoadAndRelocateCore ==
    /\ pc \in RelocSlots
    /\ LET r == LoadAndRelocate(mods[pc], cur_base) IN
       /\ mods' = [mods EXCEPT ![pc] = r.mod]
       /\ cur_base' = r.base_page
       /\ base' = r.base_page
       /\ layout_log' = Append(layout_log, Region(<<pc, 0>>, r.base_page, r.pages_needed))
    /\ pc' = PatchPc[pc]
    /\ UNCHANGED <<inputs, image, err, rsps, system_data, bases, xrefs, modules_to_write,
                   idx, links>>

LoadAndRelocateRsp ==
    /\ pc = "rsp"
    /\ idx <= Len(rsps)
    /\ LET r == LoadAndRelocate(rsps[idx].rsp, cur_base) IN
       /\ rsps' = [rsps EXCEPT ![idx].rsp = r.mod]
       /\ cur_base' = r.base_page
       /\ base' = r.base_page
       /\ layout_log' = Append(layout_log, Region(<<"RSP", idx>>, r.base_page, r.pages_needed))
    /\ pc' = "rsp_patch"
    /\ UNCHANGED <<inputs, image, err, mods, system_data, bases, xrefs, modules_to_write,
                   idx, links>>

LoadAndRelocateBrs ==
    /\ pc = "brs"
    /\ idx <= Len(rsps)
    /\ LET r == LoadAndRelocate(rsps[idx].brs, cur_base) IN
       /\ rsps' = [rsps EXCEPT ![idx].brs = r.mod]
       /\ cur_base' = r.base_page
       /\ base' = r.base_page
       /\ layout_log' = Append(layout_log, Region(<<"BRS", idx>>, r.base_page, r.pages_needed))
    /\ pc' = "brs_patch"
    /\ UNCHANGED <<inputs, image, err, mods, system_data, bases, xrefs, modules_to_write,
                   idx, links>>

(***************************************************************************)
(* generate(): what follows each relocation.                               *)
(***************************************************************************)
\* The module a reference of modules_to_write names.
ModuleOf(ref) ==
    IF ref[1] = "RSP" THEN rsps[ref[2]].rsp
    ELSE IF ref[1] = "BRS" THEN rsps[ref[2]].brs
    ELSE mods[ref[1]]

\* A loop over the companions that ends after the first one.
NextBrsOnce(i) ==
    LET S == {j \in i..Len(rsps) : rsps[j].brs # NoModule}
    IN  IF S = {} \/ i > 1 THEN Len(rsps) + 1 ELSE CHOOSE j \in S : \A k \in S : j <= k

\* The first position from i on of an extension with a companion.
NextBrs(i) ==
    LET S == {j \in i..Len(rsps) : rsps[j].brs # NoModule}
    IN  IF S = {} THEN Len(rsps) + 1 ELSE CHOOSE j \in S : \A k \in S : j <= k

\* RESBDOS: its base page, and the two captured ranges.
PatchResbdos ==
    /\ pc = "resbdos_patch"
    /\ LET w == RunWrites(system_data, << <<"B", 8, base>> >>)
           code == mods["resbdos"].code
       IN  /\ system_data' = w.buf
           /\ IF w.ok
              THEN /\ resbdos009' = PySlice(code, 9, 12)
                   /\ resbdos012' = PySlice(code, 12, 18)
                   /\ modules_to_write' = Append(modules_to_write, <<"resbdos", 0>>)
                   /\ pc' = "xdos"
                   /\ UNCHANGED err
              ELSE /\ Raise(w.err)
                   /\ UNCHANGED <<resbdos009, resbdos012, modules_to_write>>
    /\ UNCHANGED <<inputs, image, mods, rsps, cur_base, bases, xdos003, sysdatadr, bnkxios000,
                   act_xios_common_base, base, idx, links, layout_log>>

\* XDOS: patched with RESBDOS's entry and the control block's address.
PatchXdos ==
    /\ pc = "xdos_patch"
    /\ LET w == RunWrites(system_data, << <<"B", 11, base>> >>)
           sda == <<0, cfg.mem_top>>
           c1 == PySliceAssign(mods["xdos"].code, 9, 12, resbdos009)
           c2 == PySliceAssign(c1, 12, 14, sda)
       IN  /\ system_data' = w.buf
           /\ IF w.ok
              THEN /\ mods' = [mods EXCEPT !["xdos"].code = c2]
                   /\ sysdatadr' = sda
                   /\ xdos003' = PySlice(c2, 3, 9)
                   /\ modules_to_write' = Append(modules_to_write, <<"xdos", 0>>)
                   /\ pc' = "rsp"
                   /\ idx' = 1
                   /\ rsp_link' = 0
                   /\ prev_rsp_addr' = 0
                   /\ UNCHANGED err
              ELSE /\ Raise(w.err)
                   /\ UNCHANGED <<mods, sysdatadr, xdos003, modules_to_write, idx,
                                  rsp_link, prev_rsp_addr>>
    /\ UNCHANGED <<inputs, image, rsps, cur_base, bases, resbdos009, resbdos012, bnkxios000,
                   act_xios_common_base, base, brspl, brsp_base, nmb_brsps, layout_log>>

\* One foreground extension: its link field points at the one loaded before.
PatchRsp ==
    /\ pc = "rsp_patch"
    /\ LET code == rsps[idx].rsp.code
           ok == CanPackH(code, 0, prev_rsp_addr)
       IN  IF ok
           THEN /\ rsps' = [rsps EXCEPT ![idx].rsp_base = base * 256,
                                        ![idx].rsp.code = PackH(code, 0, prev_rsp_addr)]
                /\ prev_rsp_addr' = base * 256
                /\ rsp_link' = base * 256
                /\ modules_to_write' = Append(modules_to_write, <<"RSP", idx>>)
                /\ idx' = idx + 1
                /\ pc' = "rsp"
                /\ UNCHANGED err
           ELSE /\ rsps' = [rsps EXCEPT ![idx].rsp_base = base * 256,
                                        ![idx].rsp.code = PackHFailed(code, 0)]
                /\ Raise("struct.error")
                /\ UNCHANGED <<prev_rsp_addr, rsp_link, modules_to_write, idx>>
    /\ UNCHANGED <<inputs, image, mods, system_data, cur_base, bases, xrefs, base, brspl,
                   brsp_base, nmb_brsps, layout_log>>

\* After the loop over the foreground extensions: rsp_base.
RspDone ==
    /\ pc = "rsp"
    /\ idx > Len(rsps)
    /\ LET w == RunWrites(system_data, << <<"B", 12, cur_base>> >>) IN
       /\ system_data' = w.buf
       /\ IF w.ok THEN pc' = "bnkxios" /\ UNCHANGED err ELSE Raise(w.err)
    /\ UNCHANGED <<inputs, image, mods, rsps, cur_base, bases, xrefs, modules_to_write,
                   base, idx, links, layout_log>>

\* BNKXIOS: the common-base block is patched, the jump table saved.
PatchBnkxios ==
    /\ pc = "bnkxios_patch"
    /\ LET w == RunWrites(system_data, << <<"B", 13, base>> >>)
           code == mods["bnkxios"].code
           jp == PySlice(code, 1, 3)
           read == IF CanUnpackH(jp) THEN UnpackH(jp) ELSE 0
           low == read < cfg.common_base * 256
           act == IF low /\ base >= cfg.common_base THEN base * 256 ELSE read
           offset == act - base * 256
           c1 == PySliceAssign(code, offset + 3, offset + 9, resbdos012)
           c2 == PySliceAssign(c1, offset + 9, offset + 15, xdos003)
           c3 == PySliceAssign(c2, offset + 15, offset + 17, sysdatadr)
           patched == IF offset + 17 <= Len(code) THEN c3 ELSE code
       IN  /\ system_data' = w.buf
           /\ IF ~w.ok
              THEN /\ Raise(w.err)
                   /\ UNCHANGED <<mods, act_xios_common_base, bnkxios000, modules_to_write>>
              ELSE IF ~CanUnpackH(jp)
              THEN /\ Raise("struct.error")
                   /\ UNCHANGED <<mods, act_xios_common_base, bnkxios000, modules_to_write>>
              ELSE IF low /\ ~(base >= cfg.common_base)
              THEN /\ Raise("ValueError")
                   /\ act_xios_common_base' = read
                   /\ UNCHANGED <<mods, bnkxios000, modules_to_write>>
              ELSE /\ act_xios_common_base' = act
                   /\ mods' = [mods EXCEPT !["bnkxios"].code = patched]
                   /\ bnkxios000' = PySlice(patched, 0, 256)
                   /\ modules_to_write' = Append(modules_to_write, <<"bnkxios", 0>>)
                   /\ pc' = "bnkbdos"
                   /\ UNCHANGED err
    /\ UNCHANGED <<inputs, image, rsps, cur_base, bases, resbdos009, resbdos012, xdos003,
                   sysdatadr, base, idx, links, layout_log>>

\* BNKBDOS: only its base page is recorded.
PatchBnkbdos ==
    /\ pc = "bnkbdos_patch"
    /\ LET w == RunWrites(system_data, << <<"B", 14, base>> >>) IN
       /\ system_data' = w.buf
       /\ IF w.ok
          THEN /\ modules_to_write' = Append(modules_to_write, <<"bnkbdos", 0>>)
               /\ pc' = "bnkxdos"
               /\ UNCHANGED err
          ELSE Raise(w.err) /\ UNCHANGED modules_to_write
    /\ UNCHANGED <<inputs, image, mods, rsps, cur_base, bases, xrefs, base, idx, links,
                   layout_log>>

\* BNKXDOS: patched with the control block's address; its jump table goes
\* into XDOS.
PatchBnkxdos ==
    /\ pc = "bnkxdos_patch"
    /\ LET w == RunWrites(system_data, << <<"B", 242, base>> >>)
           c1 == PySliceAssign(mods["bnkxdos"].code, 0, 2, sysdatadr)
           cmn_xdos_jmp_tbl == PySlice(c1, 4, 44)
       IN  /\ system_data' = w.buf
           /\ IF w.ok
              THEN /\ mods' = [mods EXCEPT
                                 !["bnkxdos"].code = c1,
                                 !["xdos"].code =
                                     PySliceAssign(mods["xdos"].code, 14, 54, cmn_xdos_jmp_tbl)]
                   /\ modules_to_write' = Append(modules_to_write, <<"bnkxdos", 0>>)
                   /\ pc' = IF mods["tmp"] # NoModule THEN "tmp" ELSE "brs"
                   /\ idx' = IF mods["tmp"] # NoModule THEN idx ELSE NextBrs(1)
                   /\ UNCHANGED err
              ELSE Raise(w.err) /\ UNCHANGED <<mods, modules_to_write, idx>>
    /\ UNCHANGED <<inputs, image, rsps, cur_base, bases, xrefs, base, links, layout_log>>

\* TMP: the TMPD and TMP base pages, and the control block's address.
PatchTmp ==
    /\ pc = "tmp_patch"
    /\ LET w == RunWrites(system_data, << <<"B", 243, tmpd_base>>, <<"B", 247, base>> >>) IN
       /\ system_data' = w.buf
       /\ IF w.ok
          THEN /\ mods' = [mods EXCEPT
                             !["tmp"].code = PySliceAssign(mods["tmp"].code, 0, 2, sysdatadr)]
               /\ modules_to_write' = Append(modules_to_write, <<"tmp", 0>>)
               /\ pc' = "brs"
               /\ idx' = NextBrs(1)
               /\ UNCHANGED err
          ELSE Raise(w.err) /\ UNCHANGED <<mods, modules_to_write, idx>>
    /\ UNCHANGED <<inputs, image, rsps, cur_base, bases, xrefs, base, links, layout_log>>

\* The companion step with INITSP read from bytes 2-3 only after the link was
\* written into them.
PatchBrsLate ==
    /\ pc = "brs_patch"
    /\ LET code == rsps[idx].brs.code
           brs_base == base * 256
           ok1 == CanUnpackH(PySlice(code, 2, 4))
           ok2 == ok1 /\ CanPackH(code, 0, rsps[idx].rsp_base)
           c1 == IF ok2 THEN PackH(code, 0, rsps[idx].rsp_base)
                 ELSE IF ok1 THEN PackHFailed(code, 0) ELSE code
           ok3 == ok2 /\ CanPackH(c1, 2, brspl)
           c2 == IF ok3 THEN PackH(c1, 2, brspl)
                 ELSE IF ok2 THEN PackHFailed(c1, 2) ELSE c1
           sp == PySlice(c2, 2, 4)
           stack_ptr == IF CanUnpackH(sp) THEN UnpackH(sp) ELSE 0
           rcode == rsps[idx].rsp.code
           ok4 == ok3 /\ CanPackH(rcode, 6, stack_ptr)
       IN  /\ rsps' = [rsps EXCEPT
                         ![idx].brs.code = c2,
                         ![idx].rsp.code = IF ok4 THEN PackH(rcode, 6, stack_ptr)
                                           ELSE IF ok3 THEN PackHFailed(rcode, 6)
                                           ELSE rcode]
           /\ brspl' = IF ok3 THEN brs_base ELSE brspl
           /\ IF ok4
              THEN /\ modules_to_write' = Append(modules_to_write, <<"BRS", idx>>)
                   /\ brsp_base' = base
                   /\ nmb_brsps' = nmb_brsps + 1
                   /\ idx' = NextBrs(idx + 1)
                   /\ pc' = "brs"
                   /\ UNCHANGED err
              ELSE /\ Raise("struct.error")
                   /\ UNCHANGED <<modules_to_write, brsp_base, nmb_brsps, idx>>
    /\ UNCHANGED <<inputs, image, mods, system_data, cur_base, bases, xrefs, base,
                   rsp_link, prev_rsp_addr, layout_log>>

\* One companion: INITSP is read from bytes 2-3, then the back-reference and
\* the link are written, then INITSP goes into the foreground's pd_stkptr.
PatchBrs ==
    /\ pc = "brs_patch"
    /\ LET code == rsps[idx].brs.code
           brs_base == base * 256
           sp == PySlice(code, 2, 4)
           stack_ptr == IF CanUnpackH(sp) THEN UnpackH(sp) ELSE 0
           ok1 == CanUnpackH(sp)
           ok2 == ok1 /\ CanPackH(code, 0, rsps[idx].rsp_base)
           c1 == IF ok2 THEN PackH(code, 0, rsps[idx].rsp_base)
                 ELSE IF ok1 THEN PackHFailed(code, 0) ELSE code
           ok3 == ok2 /\ CanPackH(c1, 2, brspl)
           c2 == IF ok3 THEN PackH(c1, 2, brspl)
                 ELSE IF ok2 THEN PackHFailed(c1, 2) ELSE c1
           rcode == rsps[idx].rsp.code
           ok4 == ok3 /\ CanPackH(rcode, 6, stack_ptr)
       IN  /\ rsps' = [rsps EXCEPT
                         ![idx].brs.code = c2,
                         ![idx].rsp.code = IF ok4 THEN PackH(rcode, 6, stack_ptr)
                                           ELSE IF ok3 THEN PackHFailed(rcode, 6)
                                           ELSE rcode]
           /\ brspl' = IF ok3 THEN brs_base ELSE brspl
           /\ IF ok4
              THEN /\ modules_to_write' = Append(modules_to_write, <<"BRS", idx>>)
                   /\ brsp_base' = base
                   /\ nmb_brsps' = nmb_brsps + 1
                   /\ idx' = NextBrs(idx + 1)
                   /\ pc' = "brs"
                   /\ UNCHANGED err
              ELSE /\ Raise("struct.error")
                   /\ UNCHANGED <<modules_to_write, brsp_base, nmb_brsps, idx>>
    /\ UNCHANGED <<inputs, image, mods, system_data, cur_base, bases, xrefs, base,
                   rsp_link, prev_rsp_addr, layout_log>>

\* After the loop over the companions: their count, lowest page and list head.
BrsDone ==
    /\ pc = "brs"
    /\ idx > Len(rsps)
    /\ LET w == RunWrites(system_data,
                    << <<"B", 248, nmb_brsps>> >>
                    \o (IF nmb_brsps > 0
                        THEN << <<"B", 249, brsp_base>>, <<"H", 250, brspl>> >>
                        ELSE <<>>))
       IN  /\ system_data' = w.buf
           /\ IF w.ok THEN pc' = "lock" /\ UNCHANGED err ELSE Raise(w.err)
    /\ UNCHANGED <<inputs, image, mods, rsps, cur_base, bases, xrefs, modules_to_write,
                   base, idx, links, layout_log>>

\* The lock table below the last module.
LockTable ==
    /\ pc = "lock"
    /\ LET total_list_items == cfg.total_locked_records + cfg.total_open_files
           lock_pages == (total_list_items * 10 + 255) \div 256
           cur == cur_base - lock_pages
           w == RunWrites(system_data, << <<"H", 191, cur * 256>> >>)
       IN  /\ cur_base' = cur
           /\ lock_free_space' = cur * 256
           /\ system_data' = w.buf
           /\ IF w.ok
              THEN /\ layout_log' = Append(layout_log, Region(<<"LCKLSTS DAT", 0>>, cur, lock_pages))
                   /\ pc' = "console"
                   /\ UNCHANGED err
              ELSE Raise(w.err) /\ UNCHANGED layout_log
    /\ UNCHANGED <<inputs, image, mods, rsps, tmpd_base, xios_jmp_tbl_base,
                   console_dat_base, xrefs, modules_to_write, base, idx, links>>

\* The console data region, one page per console.
ConsoleData ==
    /\ pc = "console"
    /\ IF cfg.num_consoles > 0
       THEN LET cur == cur_base - cfg.num_consoles
                w == RunWrites(system_data, << <<"B", 244, cur>> >>)
            IN  /\ cur_base' = cur
                /\ console_dat_base' = cur
                /\ system_data' = w.buf
                /\ IF w.ok
                   THEN /\ layout_log' = Append(layout_log,
                                Region(<<"CONSOLE DAT", 0>>, cur, cfg.num_consoles))
                        /\ pc' = "memseg"
                        /\ UNCHANGED err
                   ELSE Raise(w.err) /\ UNCHANGED layout_log
       ELSE /\ pc' = "memseg"
            /\ UNCHANGED <<err, cur_base, console_dat_base, system_data, layout_log>>
    /\ UNCHANGED <<inputs, image, mods, rsps, tmpd_base, xios_jmp_tbl_base,
                   lock_free_space, xrefs, modules_to_write, base, idx, links>>

(***************************************************************************)
(* setup_memory_segments                                                   *)
(***************************************************************************)
\* The loop over the user segments without its break.
UserSegmentsAll == 1..cfg.num_mem_segments

\* The user segments written: the loop breaks at the first offset past the table.
UserSegments == {i \in 1..cfg.num_mem_segments : 16 + i * 4 < 48}

SegmentWrites ==
    << <<"B", 16, cur_base>>,
       <<"B", 17, 255 - cur_base + 1>>,
       <<"B", 18, 128>>,
       <<"B", 19, 0>> >>
    \o [k \in 1..(4 * Cardinality(UserSegments)) |->
          LET i == (k - 1) \div 4 + 1
              f == (k - 1) % 4
          IN  <<"B", 16 + i * 4 + f,
                CASE f = 0 -> 0 [] f = 1 -> cfg.common_base [] f = 2 -> 0 [] f = 3 -> i>>]
    \o << <<"B", 15, 1 + Cardinality(UserSegments)>> >>

SetupMemorySegments ==
    /\ pc = "memseg"
    /\ LET w == RunWrites(system_data, SegmentWrites) IN
       /\ system_data' = w.buf
       /\ IF w.ok THEN pc' = "image" /\ UNCHANGED err ELSE Raise(w.err)
    /\ UNCHANGED <<inputs, image, mods, rsps, cur_base, bases, xrefs, modules_to_write,
                   base, idx, links, layout_log>>

(***************************************************************************)
(* The memory image and the output.                                        *)
(***************************************************************************)
\* write_module: the module's code copied to its place in the image.
WriteModule(img, m, ib) ==
    LET offset == m.base - ib
        end_offset == offset + Len(m.code)
    IN  IF offset < 0 \/ end_offset > Len(img)
        THEN [ok |-> FALSE, img |-> img]
        ELSE [ok |-> TRUE, img |-> PySliceAssign(img, offset, offset + Len(m.code), m.code)]

\* The loop over modules_to_write.
RECURSIVE WriteModules(_, _, _)
WriteModules(img, refs, ib) ==
    IF refs = <<>> THEN [ok |-> TRUE, img |-> img]
    ELSE LET w == WriteModule(img, ModuleOf(Head(refs)), ib) IN
         IF w.ok THEN WriteModules(w.img, Tail(refs), ib) ELSE w

BuildImage ==
    /\ pc = "image"
    /\ LET ib == cur_base * 256
           image_size == cfg.mem_top * 256 - ib
           w == WriteModules(Zeros(image_size), modules_to_write, ib)
       IN  /\ image_base' = ib
           /\ mem_image' = w.img
           /\ IF w.ok THEN pc' = "jmptbl" /\ UNCHANGED err ELSE Raise("ValueError")
    /\ UNCHANGED <<inputs, output, record_count, written, mods, rsps, system_data,
                   cur_base, bases, xrefs, modules_to_write, base, idx, links,
                   layout_log>>

\* The saved XIOS jump table is copied to the XIOSJMP TBL page.
CopyJumpTable ==
    /\ pc = "jmptbl"
    /\ LET xios_tbl_offset == xios_jmp_tbl_base * 256 - image_base IN
       mem_image' =
           IF xios_tbl_offset >= 0 /\ xios_tbl_offset + 256 <= Len(mem_image)
           THEN PySliceAssign(mem_image, xios_tbl_offset, xios_tbl_offset + 256, bnkxios000)
           ELSE mem_image
    /\ pc' = "finalize"
    /\ UNCHANGED <<inputs, err, image_base, output, record_count, written, mods,
                   rsps, system_data, cur_base, bases, xrefs, modules_to_write, base,
                   idx, links, layout_log>>

\* The record count, the extension count and the foreground list head.
Finalize ==
    /\ pc = "finalize"
    /\ LET rc == (256 + Len(mem_image) + 127) \div 128
           w == RunWrites(system_data,
                    << <<"H", 120, rc>>, <<"B", 125, Len(rsps)>> >>
                    \o (IF Len(rsps) > 0 THEN << <<"H", 254, rsp_link>> >> ELSE <<>>))
       IN  /\ record_count' = rc
           /\ system_data' = w.buf
           /\ IF w.ok THEN pc' = "output" /\ UNCHANGED err ELSE Raise(w.err)
    /\ UNCHANGED <<inputs, mem_image, image_base, output, written, mods, rsps,
                   cur_base, bases, xrefs, modules_to_write, base, idx, links,
                   layout_log>>

\* The 128-byte records lo, .., hi-1 of the padded image in address order.
ForwardRange(padded_image, lo, hi) ==
    PySlice(padded_image, lo * 128, hi * 128)

\* The 128-byte records hi-1, hi-2, .., lo of the padded image, in that order
\* (the loop of generate() from num_records - 1 down to 0, the range halved).
RECURSIVE ReversedRange(_, _, _)
ReversedRange(padded_image, lo, hi) ==
    IF lo >= hi THEN <<>>
    ELSE IF hi = lo + 1 THEN PySlice(padded_image, lo * 128, (lo + 1) * 128)
    ELSE LET mid == (lo + hi) \div 2 IN
         ReversedRange(padded_image, mid, hi) \o ReversedRange(padded_image, lo, mid)

BuildOutput ==
    /\ pc = "output"
    /\ LET padded_image == mem_image \o Zeros((-Len(mem_image)) % 128)
           num_records == Len(padded_image) \div 128
           out == system_data \o ReversedRange(padded_image, 0, num_records)
       IN  /\ output' = out
           /\ record_count' = Len(out) \div 128
    /\ pc' = "write_output"
    /\ UNCHANGED <<inputs, err, mem_image, image_base, written, mods, rsps,
                   system_data, cur_base, bases, xrefs, modules_to_write, base, idx,
                   links, layout_log>>

(***************************************************************************)
(* main(): after generate() returned, the two files are written.           *)
(***************************************************************************)
\* The image file written as soon as the modules are placed, before the lock
\* table, the memory image and the output are made.
WriteOutputEarly ==
    /\ pc = "lock"
    /\ written.output = Absent
    /\ written' = [written EXCEPT !.output = output]
    /\ UNCHANGED <<inputs, pc, err, mem_image, image_base, output, record_count, mods,
                   rsps, system_data, cur_base, bases, xrefs, modules_to_write, base,
                   idx, links, layout_log>>

\* write_output: self.output goes to spr_dir / config.output.
WriteOutput ==
    /\ pc = "write_output"
    /\ written' = [written EXCEPT !.output = output]
    /\ pc' = "write_system_dat"
    /\ UNCHANGED <<inputs, err, mem_image, image_base, output, record_count, mods,
                   rsps, system_data, cur_base, bases, xrefs, modules_to_write, base,
                   idx, links, layout_log>>

\* The control-block file with byte 241 telling a repeated run from a first.
WriteSystemDatStamped ==
    /\ pc = "write_system_dat"
    /\ written' = [written EXCEPT !.system_dat =
                       IF first = NoRun \/ Len(system_data) < 242 THEN system_data
                       ELSE [system_data EXCEPT ![242] = 1]]
    /\ pc' = "done"
    /\ UNCHANGED <<inputs, err, mem_image, image_base, output, record_count, mods,
                   rsps, system_data, cur_base, bases, xrefs, modules_to_write, base,
                   idx, links, layout_log>>

\* write_system_dat: self.system_data goes to spr_dir / config.system_dat.
WriteSystemDat ==
    /\ pc = "write_system_dat"
    /\ written' = [written EXCEPT !.system_dat = system_data]
    /\ pc' = "done"
    /\ UNCHANGED <<inputs, err, mem_image, image_base, output, record_count, mods,
                   rsps, system_data, cur_base, bases, xrefs, modules_to_write, base,
                   idx, links, layout_log>>

(***************************************************************************)
(* The run.                                                                *)
(***************************************************************************)
Next ==
    \/ LoadModules
    \/ SetupSystemData
    \/ CalculateMemoryLayout
    \/ LoadAndRelocateCore
    \/ PatchResbdos
    \/ PatchXdos
    \/ LoadAndRelocateRsp
    \/ PatchRsp
    \/ RspDone
    \/ PatchBnkxios
    \/ PatchBnkbdos
    \/ PatchBnkxdos
    \/ PatchTmp
    \/ LoadAndRelocateBrs
    \/ PatchBrs
    \/ BrsDone
    \/ LockTable
    \/ ConsoleData
    \/ SetupMemorySegments
    \/ BuildImage
    \/ CopyJumpTable
    \/ Finalize
    \/ BuildOutput
    \/ WriteOutput
    \/ WriteSystemDat

Spec == Init /\ [][Next]_vars

\* main() run a second time on the same configuration and the same files: a
\* new SystemGenerator is constructed, what the first run wrote is kept aside.
Restart ==
    /\ pc \in {"done", "failed"}
    /\ first = NoRun
    /\ first' = [written |-> written, err |-> err]
    /\ pc' = "load"
    /\ err' = "none"
    /\ mods' = [s \in CoreNames |-> NoModule]
    /\ rsps' = <<>>
    /\ system_data' = Zeros(256)
    /\ cur_base' = cfg.mem_top
    /\ tmpd_base' = 0
    /\ xios_jmp_tbl_base' = 0
    /\ console_dat_base' = 0
    /\ lock_free_space' = 0
    /\ resbdos009' = Zeros(3)
    /\ resbdos012' = Zeros(6)
    /\ xdos003' = Zeros(6)
    /\ sysdatadr' = Zeros(2)
    /\ bnkxios000' = Zeros(256)
    /\ act_xios_common_base' = 0
    /\ modules_to_write' = <<>>
    /\ base' = 0
    /\ idx' = 0
    /\ rsp_link' = 0
    /\ prev_rsp_addr' = 0
    /\ brspl' = 0
    /\ brsp_base' = 0
    /\ nmb_brsps' = 0
    /\ layout_log' = <<>>
    /\ mem_image' = <<>>
    /\ image_base' = 0
    /\ output' = <<>>
    /\ record_count' = 0
    /\ written' = [output |-> Absent, system_dat |-> Absent]
    /\ UNCHANGED <<cfg, files>>

NextTwice ==
    \/ Next
    \/ Restart

SpecTwice == Init /\ [][NextTwice]_vars

(***************************************************************************)
(* Properties of a run.                                                    *)
(***************************************************************************)
\* The modules of the state: the core modules loaded, every foreground
\* extension and every companion.
LoadedRefs ==
    {<<s, 0>> : s \in {c \in CoreNames : mods[c] # NoModule}}
    \cup {<<"RSP", i>> : i \in 1..Len(rsps)}
    \cup {<<"BRS", i>> : i \in {j \in 1..Len(rsps) : rsps[j].brs # NoModule}}

\* The little-endian 16-bit number at bytes off, off+1 of s.
Word(s, off) == s[off + 1] + 256 * s[off + 2]

\* Reference ref is in generate()'s list of modules whose patches are done.
Written(ref) == \E k \in 1..Len(modules_to_write) : modules_to_write[k] = ref

\* Bit 7 - (i mod 8) of byte i div 8 of the bitmap region a file holds after
\* its psize code bytes; a byte the file does not hold has no bit set.
BitmapBit(data, psize, i) ==
    LET off == 256 + psize + (i \div 8) IN
    /\ i \div 8 < (psize + 7) \div 8
    /\ off < Len(data)
    /\ (data[off + 1] \div (2 ^ (7 - (i % 8)))) % 2 = 1

\* C1: whenever a module is relocated to a base page, exactly the code bytes
\* at indices i < psize whose bit (bit 7 - i mod 8 of bitmap byte i div 8) is
\* set become (byte + base_page) mod 256, every other byte is unchanged, and
\* the bit test of mkmpm.py's read_spr marks the same indices.
C1_RelocateByBitmap ==
    [][\A ref \in LoadedRefs :
         LET m == ModuleOf(ref)
             n == ModuleOf(ref)'
         IN  (m # NoModule /\ n.relocs = m.relocs + 1) =>
               /\ n.base = base' * 256
               /\ Len(n.code) = Len(m.code)
               /\ \A i \in 0..(Len(m.code) - 1) :
                    n.code[i + 1] =
                        IF i < m.psize /\ BitmapBit(files[m.path], m.psize, i)
                        THEN (m.code[i + 1] + base') % 256
                        ELSE m.code[i + 1]
               /\ \A i \in 0..(m.psize - 1) :
                    ReadSprBitSet(GetBitmap(files[m.path], m.psize), i)
                        <=> BitmapBit(files[m.path], m.psize, i)]_vars

\* BNKBDOS relocated to a page that is no multiple of 256: its first bitmap
\* byte is 0x81, and bytes 0 and 7 moved while bytes 1 and 6 did not.
C1_Witness ==
    /\ pc = "bnkbdos_patch"
    /\ base % 256 # 0
    /\ LET m == mods["bnkbdos"]
           f == files[m.path]
       IN  /\ Len(f) = 256 + 16 + 2
           /\ f[256 + 16 + 1] = 129
           /\ m.code[1] = (f[257] + base) % 256 /\ m.code[1] # f[257]
           /\ m.code[8] = (f[264] + base) % 256 /\ m.code[8] # f[264]
           /\ m.code[2] = f[258]
           /\ m.code[7] = f[263]

\* C2: every module that was loaded comes from a file that holds its 256-byte
\* header, its psize code bytes and all ceil(psize/8) bitmap bytes; a shorter
\* file is refused, so no module with a short or absent bitmap is accepted.
C2_LoadNeedsBitmap ==
    \A ref \in LoadedRefs :
        LET m == ModuleOf(ref) IN
        Len(files[m.path]) >= 256 + m.psize + (m.psize + 7) \div 8

\* C3: a cross-reference patch that was applied without an error had all its
\* destination bytes inside the destination module's code: bytes 9-13 and
\* 14-53 of XDOS, bytes offset+3 .. offset+16 of BNKXIOS, bytes 0-1 of
\* BNKXDOS and TMP, bytes 0-1 and 6-7 of an extension, bytes 0-3 of a
\* companion.
C3_PatchInsideCode ==
    /\ Written(<<"xdos", 0>>) => mods["xdos"].psize >= 14
    /\ Written(<<"bnkxios", 0>>) =>
         LET offset == act_xios_common_base - mods["bnkxios"].base IN
         offset + 3 >= 0 /\ offset + 17 <= mods["bnkxios"].psize
    /\ Written(<<"bnkxdos", 0>>) =>
         mods["bnkxdos"].psize >= 2 /\ mods["xdos"].psize >= 54
    /\ Written(<<"tmp", 0>>) => mods["tmp"].psize >= 2
    /\ \A i \in 1..Len(rsps) :
         /\ Written(<<"RSP", i>>) => rsps[i].rsp.psize >= 2
         /\ Written(<<"BRS", i>>) => rsps[i].brs.psize >= 4 /\ rsps[i].rsp.psize >= 8

\* C4: at every point of a run the code of every module is psize bytes long.
C4_CodeLengthIsPsize ==
    \A ref \in LoadedRefs : Len(ModuleOf(ref).code) = ModuleOf(ref).psize

\* The pages of a region of the layout table.
RegionPages(r) == r.base..(r.base + r.pages - 1)

\* C5: when generation succeeded, no two regions of the layout (control
\* block, console scratch, call stacks, jump table, each module's pages, lock
\* table, console data) share a page, and the current base page is not
\* negative.
C5_RegionsDisjoint ==
    pc = "done" =>
        /\ cur_base >= 0
        /\ \A j, k \in 1..Len(layout_log) :
             j # k => RegionPages(layout_log[j]) \cap RegionPages(layout_log[k]) = {}

\* C6: no module is relocated to a negative base page, and a run whose
\* current base page went below 0 ends with a layout-overflow error.
C6_OverflowFails ==
    /\ \A ref \in LoadedRefs : ModuleOf(ref).base >= 0
    /\ (pc = "failed" /\ cur_base < 0) => err = "LayoutOverflow"

\* The regions of the layout in their fixed order, for the configuration and
\* the extensions loaded.
FixedOrder ==
    << <<"SYSTEM DAT", 0>> >>
    \o (IF cfg.num_consoles > 0 THEN << <<"TMPD DAT", 0>> >> ELSE <<>>)
    \o (IF cfg.sys_call_stks THEN << <<"USERSYS STK", 0>> >> ELSE <<>>)
    \o << <<"XIOSJMP TBL", 0>>, <<"resbdos", 0>>, <<"xdos", 0>> >>
    \o [i \in 1..Len(rsps) |-> <<"RSP", i>>]
    \o << <<"bnkxios", 0>>, <<"bnkbdos", 0>>, <<"bnkxdos", 0>> >>
    \o (IF cfg.num_consoles > 0 THEN << <<"tmp", 0>> >> ELSE <<>>)
    \o SelectSeq([i \in 1..Len(rsps) |-> <<"BRS", i>>],
                 LAMBDA ref : rsps[ref[2]].brs # NoModule)
    \o << <<"LCKLSTS DAT", 0>> >>
    \o (IF cfg.num_consoles > 0 THEN << <<"CONSOLE DAT", 0>> >> ELSE <<>>)

\* C7: when generation succeeded, the regions were assigned in the fixed
\* order with base pages that never increase, all after the control block
\* below mem_top, every module sits at the page assigned to it, and every
\* companion is below every foreground extension and below BNKXIOS, BNKBDOS
\* and BNKXDOS.
C7_FixedOrder ==
    pc = "done" =>
        /\ [k \in 1..Len(layout_log) |-> layout_log[k].name] = FixedOrder
        /\ \A k \in 1..(Len(layout_log) - 1) :
             layout_log[k + 1].base <= layout_log[k].base
        /\ \A k \in 2..Len(layout_log) : layout_log[k].base < cfg.mem_top
        /\ \A k \in 1..Len(layout_log) :
             layout_log[k].name \in LoadedRefs =>
                 ModuleOf(layout_log[k].name).base = layout_log[k].base * 256
        /\ \A i \in 1..Len(rsps) :
             rsps[i].brs # NoModule =>
                 /\ \A j \in 1..Len(rsps) : rsps[i].brs.base < rsps[j].rsp.base
                 /\ \A s \in {"bnkxios", "bnkbdos", "bnkxdos"} :
                      rsps[i].brs.base < mods[s].base

\* A finished run with consoles, call stacks and two extensions that both
\* have a companion, the companions on different pages.
C7_Witness ==
    /\ pc = "done"
    /\ cfg.num_consoles > 0
    /\ cfg.sys_call_stks
    /\ Len(rsps) = 2
    /\ rsps[1].brs # NoModule
    /\ rsps[2].brs # NoModule
    /\ rsps[2].brs.base < rsps[1].brs.base
    /\ rsps[1].brs.base < mods["tmp"].base

\* C8: once the layout is computed, the console scratch region starts
\* ceil(num_consoles/4) pages below mem_top; without consoles nothing is
\* reserved for it, and the jump table follows the call stacks directly.
C8_ConsoleScratchPages ==
    layout_log # <<>> =>
        IF cfg.num_consoles > 0
        THEN tmpd_base = cfg.mem_top - (cfg.num_consoles + 3) \div 4
        ELSE xios_jmp_tbl_base =
                 cfg.mem_top - StkPages(cfg.sys_call_stks, cfg.num_mem_segments) - 1

\* The extensions reached from address addr by following the link fields at
\* code bytes off, off+1 of the modules at(i), at most fuel of them; -1 marks
\* an address at which no module sits.
RECURSIVE FollowLinks(_, _, _, _)
FollowLinks(at, off, addr, fuel) ==
    IF addr = 0 \/ fuel = 0 THEN <<>>
    ELSE LET S == {i \in DOMAIN at : at[i].base = addr} IN
         IF S = {} THEN <<-1>>
         ELSE LET i == CHOOSE j \in S : TRUE IN
              <<i>> \o FollowLinks(at, off, Word(at[i].code, off), fuel - 1)

Companions == SelectSeq([i \in 1..Len(rsps) |-> i], LAMBDA i : rsps[i].brs # NoModule)

\* C10: when generation succeeded, the first companion's link field (code
\* bytes 2-3) is 0, every later one's is the base address of the companion
\* before it, control-block bytes 250-251 hold the base address of the last
\* companion, byte 248 their number and byte 249 the last one's base page;
\* following bytes 2-3 from the head visits m, .., 1; and the foreground link
\* fields (code bytes 0-1 of the foreground parts) still chain the foreground
\* extensions.
C10_CompanionList ==
    pc = "done" =>
        LET m == Len(Companions)
            c == [j \in 1..m |-> rsps[Companions[j]].brs]
        IN  /\ m > 0 => Word(c[1].code, 2) = 0
            /\ \A j \in 2..m : Word(c[j].code, 2) = c[j - 1].base
            /\ system_data[249] = m
            /\ m > 0 => /\ Word(system_data, 250) = c[m].base
                         /\ system_data[250] = c[m].base \div 256
                         /\ FollowLinks(c, 2, Word(system_data, 250), m + 1)
                                = [k \in 1..m |-> m + 1 - k]
            /\ (m = 0 /\ Len(system_data) >= 252) =>
                    Word(system_data, 250) = 0 /\ system_data[250] = 0
            /\ \A i \in 1..Len(rsps) :
                 Word(rsps[i].rsp.code, 0) = IF i = 1 THEN 0 ELSE rsps[i - 1].rsp.base

\* A finished run with two extensions that both have a companion: the two
\* companions form the list, the head is the second, which links to the first.
C10_Witness ==
    /\ pc = "done"
    /\ Len(Companions) = 2
    /\ system_data[249] = 2
    /\ Word(system_data, 250) = rsps[2].brs.base
    /\ Word(rsps[2].brs.code, 2) = rsps[1].brs.base
    /\ rsps[1].brs.base > 0
    /\ system_data[250] * 256 = rsps[2].brs.base

\* C11: the step that patches a companion stores in its foreground part's
\* stack-pointer field (code bytes 6-7) the companion's bytes 2-3 as relocation
\* left them (the file's bytes, byte i moved by the base page where the bitmap
\* marks it), and only then are those bytes overwritten with the link.
C11_StackPointerBeforeLink ==
    [][(pc = "brs_patch" /\ pc' = "brs") =>
         LET m == rsps[idx].brs
             f == files[m.path]
             rel(i) == IF BitmapBit(f, m.psize, i)
                       THEN (f[257 + i] + base) % 256 ELSE f[257 + i]
         IN  /\ Word(rsps'[idx].rsp.code, 6) = Word(m.code, 2)
             /\ Word(rsps'[idx].rsp.code, 6) = rel(2) + 256 * rel(3)
             /\ Word(rsps'[idx].brs.code, 2) = brspl
             /\ m.relocs = 1]_vars

\* A finished run with two companions: the second foreground part holds its
\* companion's relocated bytes 2-3, which differ from what the link left there.
C11_Witness ==
    /\ pc = "done"
    /\ Len(Companions) = 2
    /\ LET f == files[rsps[2].brs.path] IN
       /\ BitmapBit(f, rsps[2].brs.psize, 3)
       /\ Word(rsps[2].rsp.code, 6)
              = f[259] + 256 * ((f[260] + rsps[2].brs.base \div 256) % 256)
    /\ Word(rsps[2].rsp.code, 6) # Word(rsps[2].brs.code, 2)
    /\ Word(rsps[2].brs.code, 2) = rsps[1].brs.base

\* The image addresses a module's code was copied to.
ImageRange(m) == m.base..(m.base + Len(m.code) - 1)

\* C12: when generation succeeded, the memory image is mem_top*256 -
\* image_base bytes long, image_base is the lowest base page of the layout
\* times 256, and for every loaded module the psize image bytes from
\* module.base - image_base on lie inside the image and equal the module's
\* final code.
C12_ImageHoldsModules ==
    pc = "done" =>
        /\ Len(mem_image) = cfg.mem_top * 256 - image_base
        /\ \A k \in 1..Len(layout_log) : layout_log[k].base * 256 >= image_base
        /\ \E k \in 1..Len(layout_log) : layout_log[k].base * 256 = image_base
        /\ \A ref \in LoadedRefs :
             LET m == ModuleOf(ref)
                 off == m.base - image_base
             IN  /\ off >= 0
                 /\ off + m.psize <= Len(mem_image)
                 /\ Len(m.code) >= m.psize
                 /\ \A i \in 1..m.psize : mem_image[off + i] = m.code[i]

\* C13: when generation succeeded, no two copies into the memory image wrote
\* the same address: the address ranges of the modules copied are pairwise
\* disjoint and none reaches into the page of the jump-table copy.
C13_NoOverlappingWrites ==
    pc = "done" =>
        /\ \A j, k \in 1..Len(modules_to_write) :
             j # k => ImageRange(ModuleOf(modules_to_write[j]))
                          \cap ImageRange(ModuleOf(modules_to_write[k])) = {}
        /\ \A k \in 1..Len(modules_to_write) :
             ImageRange(ModuleOf(modules_to_write[k]))
                 \cap (xios_jmp_tbl_base * 256)..(xios_jmp_tbl_base * 256 + 255) = {}

RecordOf(recs, j) == SubSeq(recs, j * 128 + 1, j * 128 + 128)

C15_ControlBlock256 ==
    pc = "done" =>
        /\ Len(written.system_dat) = 256
        /\ Len(written.output) >= 256
        /\ SubSeq(written.output, 1, 256) = written.system_dat
        /\ (Len(written.output) - 256) % 128 = 0
        /\ written.system_dat[188] = cfg.max_locked_records
        /\ written.system_dat[189] = cfg.max_open_files
        /\ written.system_dat[194] = cfg.total_locked_records
        /\ written.system_dat[195] = cfg.total_open_files
        /\ written.system_dat[198] = cfg.num_printers

\* C16: when the run succeeded, the 16-bit number at bytes 120-121 of the
\* image file times 128 is the file's length, and it is the generator's
\* final record_count.
C16_RecordCount ==
    pc = "done" =>
        /\ Word(written.output, 120) * 128 = Len(written.output)
        /\ Word(written.output, 120) = record_count

\* C17: when the run succeeded, byte 0 of the emitted control block is
\* mem_top, byte 1 num_consoles, byte 124 common_base and byte 125 the number
\* of extensions loaded; and with mem_top = 0xFF, common_base = 0xC0, 4
\* consoles and no extension the image file's length is a multiple of 128.
C17_ConfigBytes ==
    pc = "done" =>
        /\ written.system_dat[1] = cfg.mem_top
        /\ written.system_dat[2] = cfg.num_consoles
        /\ written.system_dat[125] = cfg.common_base
        /\ written.system_dat[126] = Len(rsps)
        /\ SubSeq(written.output, 1, 126) = SubSeq(written.system_dat, 1, 126)
        /\ (cfg.mem_top = 255 /\ cfg.common_base = 192 /\ cfg.num_consoles = 4
              /\ Len(rsps) = 0) => Len(written.output) % 128 = 0

\* C18: when the run succeeded, bytes 144-180 and 181-186 of the image file's
\* control block equal the bytes of RESBDOS at code offsets 0xD4-0xF8 and
\* 0xF9-0xFE as the memory image holds them, whatever RESBDOS's bitmap marks.
C18_IdentFromRelocatedCode ==
    pc = "done" =>
        LET off == mods["resbdos"].base - image_base IN
        /\ \A i \in 0..(COPYRIGHT_LEN - 1) :
             written.output[144 + i + 1] = mem_image[off + COPYRIGHT_OFFSET + i + 1]
        /\ \A i \in 0..(SERIAL_LEN - 1) :
             written.output[181 + i + 1] = mem_image[off + SERIAL_OFFSET + i + 1]

\* The base page the layout table lists for a region.
LogBase(name) ==
    layout_log[CHOOSE k \in 1..Len(layout_log) : layout_log[k].name = name].base

\* C19: when the run succeeded, the base-page bytes of the emitted control
\* block are the pages the layout assigned, which are the pages the modules
\* were relocated to: byte 7 the jump table, 8 RESBDOS, 11 XDOS, 12 the
\* lowest foreground extension (XDOS's page without extensions), 13 BNKXIOS,
\* 14 BNKBDOS, 242 BNKXDOS and, with consoles, 243 the console scratch
\* region, 244 the console data and 247 TMP.
C19_BasePageFields ==
    pc = "done" =>
        LET sd == written.system_dat
            n == Len(rsps)
            Page(slot) == mods[slot].base \div 256
        IN  /\ SubSeq(written.output, 1, Len(sd)) = sd
            /\ sd[7 + 1] = LogBase(<<"XIOSJMP TBL", 0>>)
            /\ sd[7 + 1] = xios_jmp_tbl_base
            /\ sd[8 + 1] = LogBase(<<"resbdos", 0>>) /\ sd[8 + 1] = Page("resbdos")
            /\ sd[11 + 1] = LogBase(<<"xdos", 0>>) /\ sd[11 + 1] = Page("xdos")
            /\ sd[12 + 1] = IF n > 0 THEN LogBase(<<"RSP", n>>) ELSE LogBase(<<"xdos", 0>>)
            /\ n > 0 => sd[12 + 1] * 256 = rsps[n].rsp.base
            /\ \A i \in 1..n : sd[12 + 1] * 256 <= rsps[i].rsp.base
            /\ sd[13 + 1] = LogBase(<<"bnkxios", 0>>) /\ sd[13 + 1] = Page("bnkxios")
            /\ sd[14 + 1] = LogBase(<<"bnkbdos", 0>>) /\ sd[14 + 1] = Page("bnkbdos")
            /\ sd[242 + 1] = LogBase(<<"bnkxdos", 0>>) /\ sd[242 + 1] = Page("bnkxdos")
            /\ cfg.num_consoles > 0 =>
                 /\ sd[243 + 1] = LogBase(<<"TMPD DAT", 0>>)
                 /\ sd[244 + 1] = LogBase(<<"CONSOLE DAT", 0>>)
                 /\ sd[247 + 1] = LogBase(<<"tmp", 0>>) /\ sd[247 + 1] = Page("tmp")
            /\ \A ref \in LoadedRefs : ModuleOf(ref).base % 256 = 0

\* A finished run with consoles and two extensions, all ten fields holding
\* pages that differ from one module to the next.
C19_Witness ==
    /\ pc = "done"
    /\ cfg.num_consoles > 0
    /\ Len(rsps) = 2
    /\ LET sd == written.system_dat IN
       /\ sd[13] * 256 = rsps[2].rsp.base
       /\ sd[8] > sd[9] /\ sd[9] > sd[12] /\ sd[12] > sd[13] /\ sd[13] > sd[14]
       /\ sd[14] > sd[15] /\ sd[15] > sd[243] /\ sd[243] > sd[248]
       /\ sd[248] > sd[245] /\ sd[244] > sd[8]
       /\ sd[245] > 0

\* C20: byte 241 and bytes 252-253 of the control block are zero in every
\* state of a run and in both files written, wherever the block has them:
\* no step writes a value to these offsets.
C20_QuirkBytesZero ==
    \A i \in {241, 252, 253} :
        /\ i < Len(system_data) => system_data[i + 1] = 0
        /\ (written.system_dat # Absent /\ i < Len(written.system_dat)) =>
               written.system_dat[i + 1] = 0
        /\ (written.output # Absent /\ i < Len(system_data)) =>
               written.output[i + 1] = 0

\* A finished run with a 256-byte control block in both files whose
\* neighbouring bytes 242, 243, 250-251 and 254-255 were written.
C20_Witness ==
    /\ pc = "done"
    /\ Len(written.system_dat) = 256
    /\ Len(written.output) > 256
    /\ written.system_dat[243] # 0
    /\ written.system_dat[244] # 0
    /\ Word(written.system_dat, 250) # 0
    /\ Word(written.system_dat, 254) # 0
    /\ written.output[242] = 0 /\ written.output[253] = 0 /\ written.output[254] = 0

\* The configured descriptors whose foreground file exists, in their order.
PresentDescs == SelectSeq(cfg.rsps, LAMBDA d : files[d.rsp] # Absent)

\* The required core files: TMP is required only with consoles.
RequiredPaths == {CorePath(SlotsToLoad[k]) : k \in 1..Len(SlotsToLoad)}

\* C21: a descriptor whose foreground file is absent is skipped and the others
\* are loaded: after loading, the extensions are exactly the descriptors with
\* a foreground file, in order, only they get a region of the layout, a
\* finished run counts only them in control-block byte 125 and heads the
\* foreground list with the last of them; and a run with a required core file
\* absent never leaves loading except by failing on the missing file, and
\* writes nothing.
C21_MissingFiles ==
    /\ pc \notin {"load", "failed"} =>
         /\ [i \in 1..Len(rsps) |-> rsps[i].name]
                = [i \in 1..Len(PresentDescs) |-> PresentDescs[i].name]
         /\ \A i \in 1..Len(rsps) :
              /\ rsps[i].rsp.path = PresentDescs[i].rsp
              /\ files[rsps[i].rsp.path] # Absent
              /\ rsps[i].brs # NoModule <=> files[PresentDescs[i].brs] # Absent
         /\ \A k \in 1..Len(layout_log) :
              layout_log[k].name[1] \in {"RSP", "BRS"} =>
                  layout_log[k].name[2] \in 1..Len(rsps)
    /\ pc = "done" =>
         /\ written.system_dat[125 + 1] = Len(PresentDescs)
         /\ Len(rsps) > 0 =>
              Word(written.system_dat, 254) = rsps[Len(rsps)].rsp.base
    /\ (\E p \in RequiredPaths : files[p] = Absent) =>
         /\ pc \in {"load", "failed"}
         /\ pc = "failed" => err = "FileNotFoundError"
         /\ rsps = <<>>
         /\ written = [output |-> Absent, system_dat |-> Absent]

\* A finished run configured with two extensions of which the first has no
\* foreground file: the second is the only extension, placed and counted.
C21_Witness ==
    /\ pc = "done"
    /\ Len(cfg.rsps) = 2
    /\ files[cfg.rsps[1].rsp] = Absent
    /\ Len(rsps) = 1
    /\ rsps[1].name = cfg.rsps[2].name
    /\ rsps[1].brs # NoModule
    /\ rsps[1].rsp.base > 0
    /\ written.system_dat[126] = 1
    /\ written.output[255] + 256 * written.output[256] = rsps[1].rsp.base

\* A run ended by a missing required file, before anything was planned.
C21_WitnessFatal ==
    /\ pc = "failed"
    /\ err = "FileNotFoundError"
    /\ files[CorePath("xdos")] = Absent
    /\ layout_log = <<>>

\* C22: a run that ended in an error has written neither file; the image file
\* exists only once generate() has returned without an error and holds the
\* complete output, and the control-block file exists only after it, holding
\* the final control block.
C22_NoPartialOutput ==
    /\ pc = "failed" =>
         /\ err # "none"
         /\ written = [output |-> Absent, system_dat |-> Absent]
    /\ written.output # Absent =>
         /\ pc \in {"write_system_dat", "done"}
         /\ err = "none"
         /\ written.output = output
         /\ Len(output) = Len(system_data) + Len(mem_image) + ((-Len(mem_image)) % 128)
    /\ written.system_dat # Absent =>
         /\ pc = "done"
         /\ written.output # Absent
         /\ written.system_dat = system_data

\* A run that failed on a patch after modules had been relocated and entered
\* in the list for the image: no file was written.
C22_Witness ==
    /\ pc = "failed"
    /\ err = "struct.error"
    /\ Len(modules_to_write) >= 2
    /\ mods["xdos"].relocs = 1
    /\ written.output = Absent
    /\ written.system_dat = Absent

ImagePcs == {"jmptbl", "finalize", "output", "write_output", "write_system_dat", "done"}

\* C24 without the capture made by setup_system_data: every step either
\* leaves a module's relocation count and base alone or relocates it for the
\* first time, setting its base to the step's base page times 256; a module's
\* code changes only in the step that relocates it or after it; the ranges
\* resbdos009, resbdos012, xdos003 and bnkxios000 are captured from relocated
\* modules; and when the image is built every loaded module has been
\* relocated once and no module changes from then on.
C24_RelocateOnceSteps ==
    [][/\ \A ref \in LoadedRefs :
            LET m == ModuleOf(ref)
                n == ModuleOf(ref)'
            IN  (m # NoModule /\ n # NoModule) =>
                  /\ n.relocs = m.relocs \/ (m.relocs = 0 /\ n.relocs = 1)
                  /\ n.relocs = m.relocs + 1 => n.base = base' * 256
                  /\ n.relocs = m.relocs => n.base = m.base
                  /\ m.relocs = 0 => m.base = 0
                  /\ (n.code # m.code /\ n.relocs = m.relocs) => m.relocs = 1
       /\ (resbdos009' # resbdos009 \/ resbdos012' # resbdos012)
              => mods["resbdos"].relocs = 1
       /\ xdos003' # xdos003 => mods["xdos"].relocs = 1
       /\ bnkxios000' # bnkxios000 => mods["bnkxios"].relocs = 1
       /\ pc' \in ImagePcs =>
              /\ \A ref \in LoadedRefs : ModuleOf(ref).relocs = 1
              /\ mods' = mods
              /\ rsps' = rsps
              /\ pc # "image" => image_base' = image_base]_vars

\* C24: in every step, what C24_RelocateOnceSteps says, and the step that
\* copies code bytes of RESBDOS into the control block (setup_system_data:
\* the identification string and the serial) runs on a relocated RESBDOS.
C24_RelocateOnce ==
    [][/\ (pc = "setup" /\ pc' = "layout") => mods["resbdos"].relocs = 1
       /\ \A ref \in LoadedRefs :
            LET m == ModuleOf(ref)
                n == ModuleOf(ref)'
            IN  (m # NoModule /\ n # NoModule) =>
                  /\ n.relocs = m.relocs \/ (m.relocs = 0 /\ n.relocs = 1)
                  /\ n.relocs = m.relocs + 1 => n.base = base' * 256
                  /\ n.relocs = m.relocs => n.base = m.base
                  /\ (n.code # m.code /\ n.relocs = m.relocs) => m.relocs = 1
       /\ (resbdos009' # resbdos009 \/ resbdos012' # resbdos012)
              => mods["resbdos"].relocs = 1
       /\ xdos003' # xdos003 => mods["xdos"].relocs = 1
       /\ bnkxios000' # bnkxios000 => mods["bnkxios"].relocs = 1
       /\ pc' \in ImagePcs =>
              /\ \A ref \in LoadedRefs : ModuleOf(ref).relocs = 1
              /\ mods' = mods
              /\ rsps' = rsps]_vars

\* C25: a companion is relocated only when its foreground part has been
\* relocated and has its address; the step that writes the back-reference
\* into the companion's code bytes 0-1 runs when both have been relocated,
\* and writes the base address of the companion's own foreground part; and
\* when the run has finished, the companion's bytes 0-1, in the module and in
\* the memory image, still hold that address.
C25_CompanionBackReference ==
    [][/\ \A i \in 1..Len(rsps) :
            (rsps[i].brs # NoModule /\ rsps'[i].brs.relocs = rsps[i].brs.relocs + 1) =>
                /\ rsps[i].rsp.relocs = 1
                /\ rsps[i].rsp_base = rsps[i].rsp.base
                /\ rsps[i].rsp.base = LogBase(<<"RSP", i>>) * 256
                /\ rsps'[i].brs.base < rsps[i].rsp.base
       /\ (pc = "brs_patch" /\ pc' = "brs") =>
            /\ rsps[idx].rsp.relocs = 1 /\ rsps[idx].brs.relocs = 1
            /\ rsps[idx].brs.base = base * 256
            /\ Word(rsps'[idx].brs.code, 0) = rsps[idx].rsp.base
            /\ rsps'[idx].rsp.base = rsps[idx].rsp.base
            /\ rsps'[idx].brs.base = rsps[idx].brs.base
       /\ \A i \in 1..Len(rsps) :
            (rsps[i].brs # NoModule /\ rsps'[i].brs.code # rsps[i].brs.code
                 /\ rsps'[i].brs.relocs = rsps[i].brs.relocs) =>
                pc = "brs_patch" /\ idx = i
       /\ pc' = "done" =>
            \A i \in 1..Len(rsps') :
                rsps'[i].brs # NoModule =>
                    /\ Word(rsps'[i].brs.code, 0) = rsps'[i].rsp.base
                    /\ Word(mem_image', rsps'[i].brs.base - image_base')
                           = rsps'[i].rsp.base]_vars

\* A finished run with two companions whose image bytes 0-1 name two
\* different foreground parts, each its own.
C25_Witness ==
    /\ pc = "done"
    /\ Len(Companions) = 2
    /\ Word(mem_image, rsps[1].brs.base - image_base) = rsps[1].rsp.base
    /\ Word(mem_image, rsps[2].brs.base - image_base) = rsps[2].rsp.base
    /\ rsps[1].rsp.base # rsps[2].rsp.base
    /\ rsps[2].rsp.base > 0
    /\ rsps[2].brs.base < rsps[1].brs.base
    /\ rsps[1].brs.base < rsps[2].rsp.base

\* The steps in which a module is placed, and the module each places.
RelocPcs == RelocSlots \cup {"rsp", "brs"}

\* The steps that follow a placement: the module's patches.
PatchPcs == {PatchPc[s] : s \in RelocSlots} \cup {"rsp_patch", "brs_patch"}

Placing ==
    IF pc = "rsp" THEN rsps[idx].rsp
    ELSE IF pc = "brs" THEN rsps[idx].brs
    ELSE mods[pc]

\* C26: every step that places a module gives it the least number of pages
\* that hold psize + dsize bytes: the base page it returns is the current base
\* before the step minus that number, the current base after the step is that
\* base page, the module sits there, and the layout table lists the region so.
C26_PagesPerModule ==
    [][(pc \in RelocPcs /\ pc' \in PatchPcs) =>
          LET m == Placing
              size == m.psize + m.dsize
              pages == cur_base - base'
              line == layout_log'[Len(layout_log')]
          IN  /\ pages >= 0
              /\ 256 * pages >= size
              /\ 256 * (pages - 1) < size
              /\ cur_base' = base'
              /\ line.base = base' /\ line.pages = pages
              /\ Len(layout_log') = Len(layout_log) + 1
              /\ \A ref \in LoadedRefs :
                   ModuleOf(ref)'.relocs = ModuleOf(ref).relocs + 1 =>
                       /\ ModuleOf(ref) = m
                       /\ ModuleOf(ref)'.base = base' * 256]_vars

\* A finished run in which XDOS (260 bytes of code and data) took two pages,
\* BNKXDOS (exactly 256 bytes) one, and an extension of 16 bytes one.
C26_Witness ==
    /\ pc = "done"
    /\ mods["xdos"].psize + mods["xdos"].dsize = 260
    /\ mods["xdos"].base = mods["resbdos"].base - 512
    /\ mods["bnkxdos"].psize + mods["bnkxdos"].dsize = 256
    /\ mods["bnkxdos"].base = mods["bnkbdos"].base - 256
    /\ Len(rsps) > 0
    /\ rsps[1].rsp.base = mods["xdos"].base - 256

\* Entry k (from 0) of the segment table of a control block.
SegmentEntry(sd, k) == SubSeq(sd, 16 + 4 * k + 1, 16 + 4 * k + 4)

\* C27: the step that fills the segment table changes no byte of the control
\* block outside bytes 15-47 and not its length; after it, and in the file of
\* a finished run, byte 15 is 1 + min(num_mem_segments, 7), at most 8; that
\* many entries are filled (the system segment, then one per bank) and the
\* entries after them are untouched.
C27_SegmentTable ==
    [][/\ pc = "memseg" =>
            /\ Len(system_data') = Len(system_data)
            /\ \A i \in 0..(Len(system_data) - 1) :
                 i \notin 15..47 => system_data'[i + 1] = system_data[i + 1]
       /\ (pc' = "image" \/ pc' = "done") =>
            LET sd == IF pc' = "done" THEN written'.system_dat ELSE system_data'
                count == sd[15 + 1]
            IN  /\ count <= 8
                /\ count = 1 + Min(cfg.num_mem_segments, 7)
                /\ SegmentEntry(sd, 0) = <<cur_base, 256 - cur_base, 128, 0>>
                /\ \A k \in 1..(count - 1) :
                     SegmentEntry(sd, k) = <<0, cfg.common_base, 0, k>>
                /\ \A k \in count..7 : SegmentEntry(sd, k) = <<0, 0, 0, 0>>
       /\ pc \notin {"memseg", "setup", "write_system_dat"} =>
            \A i \in 15..47 :
                i < Len(system_data) => system_data'[i + 1] = system_data[i + 1]]_vars

\* A finished run configured with nine segments: eight entries, the last for
\* bank 7, and the byte after the table left alone.
C27_Witness ==
    /\ pc = "done"
    /\ cfg.num_mem_segments = 9
    /\ written.system_dat[16] = 8
    /\ SegmentEntry(written.system_dat, 7) = <<0, cfg.common_base, 0, 7>>
    /\ cfg.common_base > 0
    /\ written.system_dat[49] = 0
    /\ written.system_dat[15] # 0

\* The bytes a..b-1 of a module's place in the memory image.
ImageAt(m, a, b) ==
    PySlice(mem_image, m.base - image_base + a, m.base - image_base + b)

\* C28: when the run succeeded, the memory image holds at every
\* cross-reference destination the bytes its source has in the image: XDOS
\* bytes 9-11 are RESBDOS bytes 9-11, XDOS bytes 14-53 are BNKXDOS bytes
\* 4-43, the BNKXIOS common-base block holds RESBDOS bytes 12-17 at +3 and
\* XDOS bytes 3-8 at +9, and XDOS bytes 12-13, BNKXDOS bytes 0-1, TMP bytes
\* 0-1 and the common-base block at +15 hold the control block's address
\* (0, mem_top).
C28_CrossReferences ==
    pc = "done" =>
        LET resbdos == mods["resbdos"]
            xdos == mods["xdos"]
            bnkxios == mods["bnkxios"]
            bnkxdos == mods["bnkxdos"]
            cb == act_xios_common_base - bnkxios.base
            sda == <<0, cfg.mem_top>>
        IN  /\ ImageAt(xdos, 9, 12) = ImageAt(resbdos, 9, 12)
            /\ Len(ImageAt(xdos, 9, 12)) = 3
            /\ ImageAt(xdos, 14, 54) = ImageAt(bnkxdos, 4, 44)
            /\ Len(ImageAt(xdos, 14, 54)) = 40
            /\ cb >= 0
            /\ ImageAt(bnkxios, cb + 3, cb + 9) = ImageAt(resbdos, 12, 18)
            /\ Len(ImageAt(resbdos, 12, 18)) = 6
            /\ ImageAt(bnkxios, cb + 9, cb + 15) = ImageAt(xdos, 3, 9)
            /\ ImageAt(xdos, 12, 14) = sda
            /\ ImageAt(bnkxdos, 0, 2) = sda
            /\ mods["tmp"] # NoModule => ImageAt(mods["tmp"], 0, 2) = sda
            /\ ImageAt(bnkxios, cb + 15, cb + 17) = sda

\* C29: once the layout is computed with the call-stacks flag set, each of
\* the min(num_mem_segments, 8) stack addresses at control-block bytes
\* 80+2j, 81+2j lies in the call-stack region of the layout, from its base
\* address up to its top boundary, whatever num_consoles is; with the flag
\* clear bytes 80-95 stay zero.
C29_StackAddresses ==
    layout_log # <<>> =>
        IF cfg.sys_call_stks
        THEN LET lo == LogBase(<<"USERSYS STK", 0>>) * 256
                 hi == lo + StkPages(cfg.sys_call_stks, cfg.num_mem_segments) * 256
             IN  \A j \in 0..(Min(cfg.num_mem_segments, 8) - 1) :
                     /\ Word(system_data, 80 + 2 * j) >= lo
                     /\ Word(system_data, 80 + 2 * j) <= hi
        ELSE \A i \in 80..95 : system_data[i + 1] = 0

\* C30: the step that copies the saved jump table into the memory image
\* leaves the image's length and every byte outside the jump-table page as
\* they were, and fills the page from its start with the first 256 bytes (all
\* bytes, if there are fewer) of BNKXIOS's final code.
C30_JumpTableCopy ==
    [][(pc = "jmptbl" /\ pc' = "finalize") =>
          LET off == xios_jmp_tbl_base * 256 - image_base
              code == mods["bnkxios"].code
          IN  /\ off >= 0 /\ off + 256 <= Len(mem_image)
              /\ Len(mem_image') = Len(mem_image)
              /\ \A i \in 0..(Len(mem_image) - 1) :
                   (i < off \/ i >= off + 256) => mem_image'[i + 1] = mem_image[i + 1]
              /\ \A i \in 0..(Min(256, Len(code)) - 1) :
                   mem_image'[off + i + 1] = code[i + 1]]_vars

====
